---- MODULE Spec2Model ----
(***************************************************************************)
(* The SAMD21 GPIO HAL of hw/mcu/atmel/samd21xx/src/hal_gpio.c together    *)
(* with the pin numbers of the SODAQ Autonomo board-support package.       *)
(*                                                                         *)
(* A C int is 32 bits wide.  A 32-bit word is represented by the set of    *)
(* the indices (0..31) of its set bits, so that the C operator & is set    *)
(* intersection and a word is nonzero when the set is nonempty.            *)
(***************************************************************************)
EXTENDS Integers, Sequences, FiniteSets

(***************************************************************************)
(* Bounds of the model.                                                    *)
(***************************************************************************)
\* pins -NegPins .. MaxPin are given to the HAL in the one-call specification
NegPins == 34
MaxPin == 66

AllPins == (0 - NegPins)..MaxPin

\* the pins of the call sequences: an out-of-table port index (-33), a
\* negative pin of port 0 (-1), PA0, the unbonded PA26, PB8, and a pin of the
\* nonexistent port 2
TestPins == {-33, -1, 0, 26, 40, 64}

\* the int values passed as val (if(val) tests for nonzero)
Vals == {0, 1, 2}

\* gpio_pull_t values; "GPIO_PULL_OTHER" is any value the switch does not name
Pulls == {"GPIO_PULL_NONE", "GPIO_PULL_UP", "GPIO_PULL_DOWN", "GPIO_PULL_OTHER"}

(***************************************************************************)
(* C integer arithmetic.                                                   *)
(***************************************************************************)
BitIdx == 0..31

\* C division truncates toward zero
CDiv(a, b) == IF a >= 0 THEN a \div b ELSE 0 - ((0 - a) \div b)

\* C remainder has the sign of the dividend
CMod(a, b) == a - b * CDiv(a, b)

\* the bits of a 16-bit half word
HalfBits(h) == {i \in 0..15 : (h \div (2^i)) % 2 = 1}

\* the word whose upper half is hi and lower half is lo
WordOf(hi, lo) == HalfBits(lo) \cup {i + 16 : i \in HalfBits(hi)}

\* the two's complement bits of an int: bit i of a negative x is the
\* complement of bit i of -x-1, and bit 31 is the sign
IntBits(x) ==
    IF x >= 0
    THEN {i \in 0..30 : (x \div (2^i)) % 2 = 1}
    ELSE {i \in 0..30 : ((0 - x - 1) \div (2^i)) % 2 = 0} \cup {31}

\* a & b
BitAnd(a, b) == a \cap b

\* a word of unknown content: all bits clear or all bits set stand for the
\* words whose & with a nonzero word is zero, respectively nonzero
AnyWord == {{}, BitIdx}

\* 1 << n.  A shift count outside 0..31 is undefined: any word may result.
\* (1 << 31 is the sign bit under the GCC the tree is built with.)
Shl1(n) == IF n \in BitIdx THEN {{n}} ELSE AnyWord

(***************************************************************************)
(* hal_gpio.c: pin encoding and the table of valid pins.                   *)
(***************************************************************************)
GPIO_PORT(pin) == CDiv(pin, 32)

GPIO_PIN(pin) == CMod(pin, 32)

GPIO_MAX_PORT == 1

\* { 0xdbffffff, 0xc0000f0c }, indexed from 0
valid_pins == <<WordOf(56319, 65535), WordOf(49152, 3852)>>

\* the values a read of valid_pins[port] can produce: the table entry, or
\* for an index outside the array whatever word lies there
valid_pins_at(port) ==
    IF port \in 0..GPIO_MAX_PORT THEN {valid_pins[port + 1]} ELSE AnyWord

(***************************************************************************)
(* bsp_sysid.h, bsp.h: the pin numbers of the board.                       *)
(***************************************************************************)
SODAQ_AUTONOMO_D0 == 11
SODAQ_AUTONOMO_D1 == 10
SODAQ_AUTONOMO_D2 == 8
SODAQ_AUTONOMO_D3 == 9
SODAQ_AUTONOMO_D4 == 14
SODAQ_AUTONOMO_D5 == 15
SODAQ_AUTONOMO_D6 == 20
SODAQ_AUTONOMO_D7 == 21
SODAQ_AUTONOMO_D8 == 6
SODAQ_AUTONOMO_D9 == 7
SODAQ_AUTONOMO_D10 == 18
SODAQ_AUTONOMO_D11 == 16
SODAQ_AUTONOMO_D12 == 19
SODAQ_AUTONOMO_D13 == 17
SODAQ_AUTONOMO_A0 == 2
SODAQ_AUTONOMO_A1 == 40
SODAQ_AUTONOMO_A2 == 41
SODAQ_AUTONOMO_A3 == 4
SODAQ_AUTONOMO_A4 == 5
SODAQ_AUTONOMO_A5 == 34

SODAQ_AUTONOMO_PIN_UART_RX == SODAQ_AUTONOMO_D0

SODAQ_AUTONOMO_PIN_UART_TX == SODAQ_AUTONOMO_D1

LED_BLINK_PIN == SODAQ_AUTONOMO_D13

(***************************************************************************)
(* The port hardware, as seen through the port driver.                     *)
(***************************************************************************)
\* the pins that have registers: two groups of 32
HwPins == 0..63

\* struct port_config as it is after reset (nothing configured)
ResetCfg == [direction |-> "RESET", input_pull |-> "RESET", powersave |-> FALSE]

VARIABLES
    cfg,    \* cfg[p]: the port_config last applied to pin p
    out,    \* out[p]: the output level latched for pin p
    log,    \* the port-driver calls made by the current (or last) HAL call
    ret,    \* <<v>> when the last HAL call returned v, <<>> otherwise
    pc,     \* "idle", "init_out_level" (inside hal_gpio_init_out), "abort"
    last    \* the current (or last) HAL call and its pin's state at entry

vars == <<cfg, out, log, ret, pc, last>>

\* the machine a function starts a call on
Start == [cfg |-> cfg, out |-> out, log |-> <<>>, ret |-> <<>>, fail |-> FALSE]

\* the machine in the middle of a call
Cur == [cfg |-> cfg, out |-> out, log |-> log, ret |-> <<>>, fail |-> FALSE]

\* a failed assert() ends the program
AssertFail(m) == [m EXCEPT !.fail = TRUE, !.ret = <<>>]

Return(m, v) == [m EXCEPT !.ret = <<v>>]

ReturnVoid(m) == [m EXCEPT !.ret = <<>>]

port_pin_set_config(m, pin, c) ==
    [m EXCEPT !.log = Append(@, [fn |-> "port_pin_set_config", pin |-> pin]),
              !.cfg = IF pin \in HwPins THEN [@ EXCEPT ![pin] = c] ELSE @]

port_pin_set_output_level(m, pin, level) ==
    [m EXCEPT !.log = Append(@, [fn |-> "port_pin_set_output_level", pin |-> pin]),
              !.out = IF pin \in HwPins THEN [@ EXCEPT ![pin] = level] ELSE @]

\* the levels a read of the pin can give: the latched level when the pin is
\* an output with read-back, otherwise whatever is on the pad
PadLevels(m, pin) ==
    IF pin \in HwPins /\ m.cfg[pin].direction = "PORT_PIN_DIR_OUTPUT_WTH_READBACK"
    THEN {m.out[pin]}
    ELSE {0, 1}

\* the outcomes of port_pin_get_input_level: the machine, with the level in ret
port_pin_get_input_level(m, pin) ==
    {[m EXCEPT !.log = Append(@, [fn |-> "port_pin_get_input_level", pin |-> pin]),
               !.ret = <<l>>] : l \in PadLevels(m, pin)}

(***************************************************************************)
(* hal_gpio.c: the functions.  Each gives the set of machines a call can   *)
(* end in (more than one where the C code's behaviour is undefined or the  *)
(* pad level is not determined).                                           *)
(***************************************************************************)
\* init_out / init_in: port > GPIO_MAX_PORT, then (port_pin & valid_pins[port]) == 0.
\* TRUE in the result: the pin is accepted.
InitAccepts(pin) ==
    LET port == GPIO_PORT(pin)
        port_pin == GPIO_PIN(pin)
    IN  IF port > GPIO_MAX_PORT
        THEN {FALSE}
        ELSE {BitAnd(IntBits(port_pin), w) # {} : w \in valid_pins_at(port)}

\* set / clear / read: assert(port <= GPIO_MAX_PORT);
\* assert(((1 << port_pin) & valid_pins[port]) != 0).  TRUE: both hold.
AssertsPass(pin) ==
    LET port == GPIO_PORT(pin)
        port_pin == GPIO_PIN(pin)
    IN  IF ~(port <= GPIO_MAX_PORT)
        THEN {FALSE}
        ELSE {BitAnd(sw[1], sw[2]) # {} : sw \in Shl1(port_pin) \X valid_pins_at(port)}

hal_gpio_set(m, pin) ==
    {IF ok THEN ReturnVoid(port_pin_set_output_level(m, pin, 1)) ELSE AssertFail(m)
        : ok \in AssertsPass(pin)}

hal_gpio_clear(m, pin) ==
    {IF ok THEN ReturnVoid(port_pin_set_output_level(m, pin, 0)) ELSE AssertFail(m)
        : ok \in AssertsPass(pin)}

hal_gpio_read(m, pin) ==
    UNION {IF ok THEN port_pin_get_input_level(m, pin) ELSE {AssertFail(m)}
        : ok \in AssertsPass(pin)}

\* a faulty hal_gpio_write: the branches of if (val) exchanged
hal_gpio_write_swapped(m, pin, val) ==
    IF val # 0 THEN hal_gpio_clear(m, pin) ELSE hal_gpio_set(m, pin)

hal_gpio_write(m, pin, val) ==
    IF val # 0 THEN hal_gpio_set(m, pin) ELSE hal_gpio_clear(m, pin)

\* a faulty hal_gpio_toggle: the branches of if (hal_gpio_read(pin)) exchanged
hal_gpio_toggle_same(m, pin) ==
    LET flip(r) ==
            IF r.fail THEN {r}
            ELSE IF r.ret[1] # 0 THEN hal_gpio_set(r, pin) ELSE hal_gpio_clear(r, pin)
        again(r) == IF r.fail THEN {r} ELSE hal_gpio_read(r, pin)
    IN  UNION {UNION {again(r2) : r2 \in flip(r1)} : r1 \in hal_gpio_read(m, pin)}

hal_gpio_toggle(m, pin) ==
    LET flip(r) ==
            IF r.fail THEN {r}
            ELSE IF r.ret[1] # 0 THEN hal_gpio_clear(r, pin) ELSE hal_gpio_set(r, pin)
        again(r) == IF r.fail THEN {r} ELSE hal_gpio_read(r, pin)
    IN  UNION {UNION {again(r2) : r2 \in flip(r1)} : r1 \in hal_gpio_read(m, pin)}

\* a faulty hal_gpio_init_in: the pin is configured before the pull is looked at
hal_gpio_init_in_late_check(m, pin, pull) ==
    {IF ~ok THEN Return(m, -1)
     ELSE LET c == port_pin_set_config(m, pin,
                    [direction |-> "PORT_PIN_DIR_INPUT",
                     input_pull |-> IF pull = "GPIO_PULL_NONE"
                                    THEN "PORT_PIN_PULL_NONE" ELSE pull,
                     powersave |-> FALSE])
          IN  IF pull = "GPIO_PULL_OTHER" THEN Return(c, -1) ELSE Return(c, 0)
        : ok \in InitAccepts(pin)}

hal_gpio_init_in(m, pin, pull) ==
    {IF ~ok THEN Return(m, -1)
     ELSE IF pull = "GPIO_PULL_NONE"
          THEN Return(port_pin_set_config(m, pin,
                    [direction |-> "PORT_PIN_DIR_INPUT",
                     input_pull |-> "PORT_PIN_PULL_NONE", powersave |-> FALSE]), 0)
     ELSE IF pull \in {"GPIO_PULL_UP", "GPIO_PULL_DOWN"}
          THEN Return(port_pin_set_config(m, pin,
                    [direction |-> "PORT_PIN_DIR_INPUT",
                     input_pull |-> pull, powersave |-> FALSE]), 0)
     ELSE Return(m, -1)
        : ok \in InitAccepts(pin)}

\* hal_gpio_init_out up to and including port_pin_set_config: the call has
\* returned -1, or the pin is configured and its level is still to be set
hal_gpio_init_out(m, pin, val) ==
    {IF ~ok THEN Return(m, -1)
     ELSE port_pin_set_config(m, pin,
                    [direction |-> "PORT_PIN_DIR_OUTPUT_WTH_READBACK",
                     input_pull |-> "SYSTEM_PINMUX_PIN_PULL_NONE", powersave |-> FALSE])
        : ok \in InitAccepts(pin)}

\* a faulty end of hal_gpio_init_out: val compared with 1 instead of tested
\* for nonzero
hal_gpio_init_out_level_eq1(m, pin, val) ==
    {IF r.fail THEN r ELSE Return(r, 0)
        : r \in IF val = 1 THEN hal_gpio_set(m, pin) ELSE hal_gpio_clear(m, pin)}

\* the rest of hal_gpio_init_out: if(val) hal_gpio_set else hal_gpio_clear; return 0
hal_gpio_init_out_level(m, pin, val) ==
    {IF r.fail THEN r ELSE Return(r, 0) : r \in hal_gpio_write(m, pin, val)}

(***************************************************************************)
(* The state machine: a program calling the HAL.                           *)
(***************************************************************************)
NoCall == [op |-> "none", pin |-> 0, val |-> 0, pull |-> "-",
           before |-> [level |-> 0, direction |-> "RESET"]]

\* the pin's latched level and direction as a call finds them
Before(pin) ==
    IF pin \in HwPins
    THEN [level |-> out[pin], direction |-> cfg[pin].direction]
    ELSE [level |-> 0, direction |-> "RESET"]

Init ==
    /\ cfg = [p \in HwPins |-> ResetCfg]
    /\ out = [p \in HwPins |-> 0]
    /\ log = <<>>
    /\ ret = <<>>
    /\ pc = "idle"
    /\ last = NoCall

\* the machine r becomes the state; the call goes on at nextpc unless it failed
Commit(r, nextpc) ==
    /\ cfg' = r.cfg
    /\ out' = r.out
    /\ log' = r.log
    /\ ret' = r.ret
    /\ pc' = IF r.fail THEN "abort" ELSE nextpc

Call_init_out(pin, val) ==
    /\ pc = "idle"
    /\ last' = [op |-> "hal_gpio_init_out", pin |-> pin, val |-> val, pull |-> "-",
                before |-> Before(pin)]
    /\ \E r \in hal_gpio_init_out(Start, pin, val) :
          Commit(r, IF r.ret = <<>> THEN "init_out_level" ELSE "idle")

Step_init_out_level ==
    /\ pc = "init_out_level"
    /\ UNCHANGED last
    /\ \E r \in hal_gpio_init_out_level(Cur, last.pin, last.val) : Commit(r, "idle")

Call_init_in(pin, pull) ==
    /\ pc = "idle"
    /\ last' = [op |-> "hal_gpio_init_in", pin |-> pin, val |-> 0, pull |-> pull,
                before |-> Before(pin)]
    /\ \E r \in hal_gpio_init_in(Start, pin, pull) : Commit(r, "idle")

Call_set(pin) ==
    /\ pc = "idle"
    /\ last' = [op |-> "hal_gpio_set", pin |-> pin, val |-> 0, pull |-> "-",
                before |-> Before(pin)]
    /\ \E r \in hal_gpio_set(Start, pin) : Commit(r, "idle")

Call_clear(pin) ==
    /\ pc = "idle"
    /\ last' = [op |-> "hal_gpio_clear", pin |-> pin, val |-> 0, pull |-> "-",
                before |-> Before(pin)]
    /\ \E r \in hal_gpio_clear(Start, pin) : Commit(r, "idle")

Call_read(pin) ==
    /\ pc = "idle"
    /\ last' = [op |-> "hal_gpio_read", pin |-> pin, val |-> 0, pull |-> "-",
                before |-> Before(pin)]
    /\ \E r \in hal_gpio_read(Start, pin) : Commit(r, "idle")

Call_write(pin, val) ==
    /\ pc = "idle"
    /\ last' = [op |-> "hal_gpio_write", pin |-> pin, val |-> val, pull |-> "-",
                before |-> Before(pin)]
    /\ \E r \in hal_gpio_write(Start, pin, val) : Commit(r, "idle")

Call_toggle(pin) ==
    /\ pc = "idle"
    /\ last' = [op |-> "hal_gpio_toggle", pin |-> pin, val |-> 0, pull |-> "-",
                before |-> Before(pin)]
    /\ \E r \in hal_gpio_toggle(Start, pin) : Commit(r, "idle")

\* any sequence of HAL calls on the pins of TestPins
Next ==
    \/ \E pin \in TestPins, val \in Vals : Call_init_out(pin, val)
    \/ Step_init_out_level
    \/ \E pin \in TestPins, pull \in Pulls : Call_init_in(pin, pull)
    \/ \E pin \in TestPins : Call_set(pin)
    \/ \E pin \in TestPins : Call_clear(pin)
    \/ \E pin \in TestPins : Call_read(pin)
    \/ \E pin \in TestPins, val \in Vals : Call_write(pin, val)
    \/ \E pin \in TestPins : Call_toggle(pin)

Spec == Init /\ [][Next]_vars

\* one HAL call, on any pin of AllPins, after reset
NextAnyPin ==
    \/ last.op = "none" /\ \E pin \in AllPins, val \in Vals : Call_init_out(pin, val)
    \/ Step_init_out_level
    \/ last.op = "none" /\ \E pin \in AllPins, pull \in Pulls : Call_init_in(pin, pull)
    \/ last.op = "none" /\ \E pin \in AllPins : Call_set(pin)
    \/ last.op = "none" /\ \E pin \in AllPins : Call_clear(pin)
    \/ last.op = "none" /\ \E pin \in AllPins : Call_read(pin)
    \/ last.op = "none" /\ \E pin \in AllPins, val \in Vals : Call_write(pin, val)
    \/ last.op = "none" /\ \E pin \in AllPins : Call_toggle(pin)

SpecAnyPin == Init /\ [][NextAnyPin]_vars

(***************************************************************************)
(* The properties.                                                         *)
(***************************************************************************)
InitOps == {"hal_gpio_init_out", "hal_gpio_init_in"}

AssertOps == {"hal_gpio_set", "hal_gpio_clear", "hal_gpio_read"}

\* the level an int val stands for
Level(val) == IF val # 0 THEN 1 ELSE 0

\* the pin is one the table marks valid: its port is 0 or 1 and bit pin%32
\* of valid_pins[port] is set
PinValid(pin) ==
    /\ pin \in HwPins
    /\ (pin % 32) \in valid_pins[(pin \div 32) + 1]

\* the pin is an output configured by hal_gpio_init_out
IsOutput(pin) ==
    /\ PinValid(pin)
    /\ cfg[pin].direction = "PORT_PIN_DIR_OUTPUT_WTH_READBACK"

\* the pins the pin-mapping comment lists: PA0..PA25, PA27, PA28, PA30, PA31
\* and PB2, PB3, PB8..PB11, PB22, PB23
CommentPins ==
    (0..25) \cup {27, 28, 30, 31} \cup {32 + b : b \in {2, 3, 8, 9, 10, 11, 22, 23}}

\* the GPIO pin numbers of the board-support package
BspPins ==
    {SODAQ_AUTONOMO_D0, SODAQ_AUTONOMO_D1, SODAQ_AUTONOMO_D2, SODAQ_AUTONOMO_D3,
     SODAQ_AUTONOMO_D4, SODAQ_AUTONOMO_D5, SODAQ_AUTONOMO_D6, SODAQ_AUTONOMO_D7,
     SODAQ_AUTONOMO_D8, SODAQ_AUTONOMO_D9, SODAQ_AUTONOMO_D10, SODAQ_AUTONOMO_D11,
     SODAQ_AUTONOMO_D12, SODAQ_AUTONOMO_D13,
     SODAQ_AUTONOMO_A0, SODAQ_AUTONOMO_A1, SODAQ_AUTONOMO_A2, SODAQ_AUTONOMO_A3,
     SODAQ_AUTONOMO_A4, SODAQ_AUTONOMO_A5,
     LED_BLINK_PIN, SODAQ_AUTONOMO_PIN_UART_RX, SODAQ_AUTONOMO_PIN_UART_TX}

\* C1: a call of hal_gpio_init_out, or of hal_gpio_init_in with a legal
\* pull, returns 0 when the pin is valid in the table and -1 when it is not.
\* (Stated for the pins 0 and above, where every step of the C code is
\* defined.)
C1_InitReturnsZeroIffValid ==
    (/\ last.op \in InitOps
     /\ last.pin >= 0
     /\ pc # "init_out_level"
     /\ last.pull # "GPIO_PULL_OTHER")
        => ret = <<IF PinValid(last.pin) THEN 0 ELSE -1>>

\* C2: the port driver is never called for a pin whose bit is not set in
\* valid_pins: every driver call a HAL call makes names a valid pin.
\* (Stated for the pins 0 and above, where every step of the C code is
\* defined.)
C2_DriverOnlyForValidPins ==
    \A i \in DOMAIN log : log[i].pin >= 0 => PinValid(log[i].pin)

\* C3: the table marks valid exactly the pins the pin-mapping comment
\* lists, 38 in all: the assertions of set, clear and read, which test the
\* table, pass for a pin exactly when the comment lists it.
C3_TableMatchesComment ==
    /\ Cardinality(CommentPins) = 38
    /\ (last.op \in AssertOps /\ last.pin >= 0)
          => ((pc # "abort") <=> (last.pin \in CommentPins))

\* C4: a toggle of a valid pin that hal_gpio_init_out made an output leaves
\* the pin at the opposite of the level it had and returns the new level ...
C4_ToggleFlips ==
    (/\ last.op = "hal_gpio_toggle"
     /\ pc = "idle"
     /\ IsOutput(last.pin))
        => /\ out[last.pin] = 1 - last.before.level
           /\ ret = <<out[last.pin]>>

\* ... and a second toggle right after the first restores the level the
\* pin had before the first.
C4_ToggleTwice ==
    (/\ pc = "idle" /\ last.op = "hal_gpio_toggle" /\ IsOutput(last.pin)
     /\ pc' = "idle" /\ last'.op = "hal_gpio_toggle" /\ last'.pin = last.pin)
        => out'[last.pin] = last.before.level

C4_Toggle == [](C4_ToggleFlips) /\ [][C4_ToggleTwice]_vars

C4_Witness ==
    /\ last.op = "hal_gpio_toggle"
    /\ pc = "idle"
    /\ IsOutput(last.pin)
    /\ last.before.level = 1
    /\ ret = <<0>>

\* C5: on a valid output pin hal_gpio_set leaves the level at 1,
\* hal_gpio_clear at 0, and hal_gpio_write(pin, val) does what hal_gpio_set
\* does when val is nonzero and what hal_gpio_clear does when val is 0 (one
\* driver call setting the level, nothing else changed) ...
C5_SetClearWrite ==
    (/\ pc = "idle" /\ pc' = "idle"
     /\ last'.op \in {"hal_gpio_set", "hal_gpio_clear", "hal_gpio_write"}
     /\ IsOutput(last'.pin))
        => LET l == CASE last'.op = "hal_gpio_set" -> 1
                      [] last'.op = "hal_gpio_clear" -> 0
                      [] OTHER -> Level(last'.val)
           IN  /\ out' = [out EXCEPT ![last'.pin] = l]
               /\ cfg' = cfg
               /\ log' = <<[fn |-> "port_pin_set_output_level", pin |-> last'.pin]>>
               /\ ret' = <<>>

\* ... and a hal_gpio_read of the pin right after returns that level.
C5_ReadAfter ==
    (/\ pc = "idle"
     /\ last.op \in {"hal_gpio_set", "hal_gpio_clear", "hal_gpio_write"}
     /\ IsOutput(last.pin)
     /\ pc' = "idle" /\ last'.op = "hal_gpio_read" /\ last'.pin = last.pin)
        => ret' = <<CASE last.op = "hal_gpio_set" -> 1
                      [] last.op = "hal_gpio_clear" -> 0
                      [] OTHER -> Level(last.val)>>

C5_Levels == [][C5_SetClearWrite]_vars /\ [][C5_ReadAfter]_vars

C5_Witness ==
    /\ last.op = "hal_gpio_write"
    /\ last.val = 2
    /\ pc = "idle"
    /\ IsOutput(last.pin)
    /\ last.before.level = 0
    /\ out[last.pin] = 1

\* C6: a call of hal_gpio_init_out whose validity test accepts the pin
\* fails no assertion: the test accepts no pin that the assertions of
\* hal_gpio_set and hal_gpio_clear reject.  (Stated for pins >= 0, where
\* both tests are defined.)
C6_InitOutFailsNoAssert ==
    (last.op = "hal_gpio_init_out" /\ last.pin >= 0) => pc # "abort"

\* C7: a call of hal_gpio_init_out or hal_gpio_init_in that returns -1 has
\* made no port-driver call and has left the configuration and the output
\* level of every pin as they were.
C7_RejectAct ==
    (/\ pc = "idle" /\ pc' = "idle"
     /\ last'.op \in InitOps
     /\ ret' = <<-1>>)
        => /\ cfg' = cfg
           /\ out' = out
           /\ log' = <<>>

C7_RejectChangesNothing == [][C7_RejectAct]_vars

C7_Witness ==
    /\ last.op = "hal_gpio_init_in"
    /\ last.pull = "GPIO_PULL_OTHER"
    /\ InitAccepts(last.pin) = {TRUE}
    /\ ret = <<-1>>
    /\ \E p \in HwPins : p # last.pin /\ cfg[p].direction # "RESET"
    /\ log = <<>>

\* C8: after hal_gpio_init_out(pin, val) has returned 0 the pin is an
\* output with read-back, without pull, powersave off, at level high for a
\* nonzero val and low for 0, whatever its configuration was before ...
C8_Configured ==
    (/\ last.op = "hal_gpio_init_out"
     /\ pc = "idle"
     /\ ret = <<0>>
     /\ last.pin \in HwPins)
        => /\ cfg[last.pin].direction = "PORT_PIN_DIR_OUTPUT_WTH_READBACK"
           /\ cfg[last.pin].input_pull
                 \in {"SYSTEM_PINMUX_PIN_PULL_NONE", "PORT_PIN_PULL_NONE"}
           /\ cfg[last.pin].powersave = FALSE
           /\ out[last.pin] = Level(last.val)

\* ... and a hal_gpio_read of the pin right after returns that level.
C8_ReadAfter ==
    (/\ pc = "idle" /\ last.op = "hal_gpio_init_out" /\ ret = <<0>>
     /\ last.pin \in HwPins
     /\ pc' = "idle" /\ last'.op = "hal_gpio_read" /\ last'.pin = last.pin)
        => ret' = <<Level(last.val)>>

C9_BspPinsAccepted ==
    (last.op # "none" /\ last.pin \in BspPins)
        => /\ (/\ last.op \in InitOps
               /\ pc # "init_out_level"
               /\ last.pull # "GPIO_PULL_OTHER") => ret = <<0>>
           /\ (last.op \in AssertOps) => pc # "abort"

\* C10: inside hal_gpio_init_out on a valid pin, once the pin is an output,
\* it is never at a level other than the one val stands for.
C10_NoOtherLevelDriven ==
    (/\ pc = "init_out_level"
     /\ PinValid(last.pin)
     /\ cfg[last.pin].direction = "PORT_PIN_DIR_OUTPUT_WTH_READBACK")
        => out[last.pin] = Level(last.val)

====
